---- MODULE Spec2Model ----
(***************************************************************************)
(* A model of roam_to_git/formatter.py: link extraction, the backlink and  *)
(* unlinked-mention indexes, context extraction and rendering.             *)
(*                                                                         *)
(* Texts are strings; offsets are 0-based and half-open as in Python, so   *)
(* Slice(s, a, b) is s[a:b] and At(s, p) is s[p].  A regular-expression    *)
(* match is the record [string, start, end, group1, group2] (re.Match:     *)
(* m.string, m.start(), m.end(), m.group(1), m.group(2); a group the       *)
(* pattern lacks is "").  None is modelled by -1 where the code keeps an   *)
(* optional integer.  A dict is a function on its keys; the input dict,    *)
(* whose iteration order the code depends on, is a sequence of items.      *)
(***************************************************************************)
EXTENDS Integers, Sequences, FiniteSets, TLC

VARIABLES
    pc,              \* position of the run
    contents,        \* format_markdown: the input dict, in insertion order
    forward_links,   \* format_markdown: per-document lists of matches
    back_links,      \* format_markdown: the backlink index (a defaultdict)
    unlinked_links,  \* format_markdown: the unlinked-mention index (a defaultdict)
    out,             \* format_markdown: the output dict
    idx,             \* number of documents the current loop has handled
    ctx,             \* a call of _extract_line_with_children: its arguments
    locals,          \* ... the values of its local variables when it returns
    again            \* ... the block returned by a second call, on the first block

vars == <<pc, contents, forward_links, back_links, unlinked_links, out, idx,
          ctx, locals, again>>

None == -1

\* Body(v) with v the value of `value`, which is computed once
Bind(value, Body(_)) == CHOOSE r \in {Body(v) : v \in {value}} : TRUE

(***************************************************************************)
(* Python's str operations.                                                *)
(***************************************************************************)
Slice(s, a, b) == IF a >= b THEN "" ELSE SubSeq(s, a + 1, b)

At(s, p) == SubSeq(s, p + 1, p + 1)

\* s.startswith(t, p)
StartsWithAt(s, t, p) == p + Len(t) <= Len(s) /\ Slice(s, p, p + Len(t)) = t

Min(S) == CHOOSE x \in S : \A y \in S : x <= y

Max(S) == CHOOSE x \in S : \A y \in S : x >= y

\* s.find(sub, p): the first offset >= p where sub occurs, or -1
Find(s, sub, p) ==
    LET hits == {q \in p..(Len(s) - Len(sub)) : StartsWithAt(s, sub, q)}
    IN IF hits = {} THEN -1 ELSE Min(hits)

\* s.rfind(sub, 0, hi): the last offset where sub occurs inside s[0:hi], or -1
RFind(s, sub, hi) ==
    LET hits == {q \in 0..(hi - Len(sub)) : StartsWithAt(s, sub, q)}
    IN IF hits = {} THEN -1 ELSE Max(hits)

\* the characters str.strip(), str.rstrip() remove when called without argument
Whitespace == {" ", "\n", "\t", "\r", "\f"}

\* s.lstrip(chars)
RECURSIVE LStrip(_, _)
LStrip(s, chars) ==
    IF s # "" /\ Head(s) \in chars THEN LStrip(Tail(s), chars) ELSE s

\* s.rstrip(chars)
RECURSIVE RStrip(_, _)
RStrip(s, chars) ==
    IF s # "" /\ At(s, Len(s) - 1) \in chars
    THEN RStrip(Slice(s, 0, Len(s) - 1), chars)
    ELSE s

\* s.strip()
Strip(s) == LStrip(RStrip(s, Whitespace), Whitespace)

\* sep.join(parts)
RECURSIVE Join(_, _)
Join(parts, sep) ==
    IF parts = <<>> THEN ""
    ELSE IF Len(parts) = 1 THEN parts[1]
    ELSE parts[1] \o sep \o Join(Tail(parts), sep)

\* s.split(sep), sep a single character
RECURSIVE Split(_, _)
Split(s, sep) ==
    LET f == Find(s, sep, 0)
    IN IF f = -1 THEN <<s>>
       ELSE <<Slice(s, 0, f)>> \o Split(Slice(s, f + 1, Len(s)), sep)

\* len(line) - len(line.lstrip(" "))
LeadingSpaces(line) == Len(line) - Len(LStrip(line, {" "}))

(***************************************************************************)
(* Context extraction.                                                     *)
(***************************************************************************)
\* _strip_leading_spaces(line, count)
_strip_leading_spaces(line, count) ==
    IF Strip(line) = "" THEN line
    ELSE LET leading == LeadingSpaces(line)
             to_remove == IF leading < count THEN leading ELSE count
         IN Slice(line, to_remove, Len(line))

\* The while loop of _extract_line_with_children: the child lines collected
\* from offset pos on, given the thresholds fixed so far.
RECURSIVE ScanChildren(_, _, _, _, _, _)
ScanChildren(text, pos, base_indent, first_child_indent, second_child_indent, child_lines) ==
    IF pos >= Len(text) THEN child_lines
    ELSE
      Bind(Find(text, "\n", pos), LAMBDA f :
      Bind(IF f = -1 THEN Len(text) ELSE f, LAMBDA next_end :
      Bind(RStrip(Slice(text, pos, next_end), {"\n"}), LAMBDA line :
        IF Strip(line) = ""
        THEN ScanChildren(text, next_end + 1, base_indent, first_child_indent,
                          second_child_indent, Append(child_lines, line))
        ELSE
          Bind(LeadingSpaces(line), LAMBDA indent :
            LET first == IF first_child_indent = None THEN indent
                         ELSE first_child_indent
                second == IF indent > first /\ second_child_indent = None
                          THEN indent ELSE second_child_indent
            IN IF indent <= base_indent THEN child_lines
               ELSE IF first_child_indent # None /\ indent < first_child_indent
                    THEN child_lines
               ELSE IF second # None /\ indent > second THEN child_lines
               ELSE ScanChildren(text, next_end + 1, base_indent, first, second,
                                 Append(child_lines, line))))))

\* The local variables of _extract_line_with_children(text, start, end) at
\* its return statement.
ExtractLocals(text, start, end) ==
    Bind(RFind(text, "\n", start) + 1, LAMBDA line_start :
    Bind(Find(text, "\n", end), LAMBDA f :
    Bind(IF f = -1 THEN Len(text) ELSE f, LAMBDA line_end :
    Bind(RStrip(Slice(text, line_start, line_end), Whitespace), LAMBDA current_line :
    Bind(LeadingSpaces(current_line), LAMBDA base_indent :
    Bind(ScanChildren(text, line_end + 1, base_indent, None, None, <<>>),
         LAMBDA child_lines :
    Bind(IF base_indent > 0
         THEN <<_strip_leading_spaces(current_line, base_indent)>>
                 \o [k \in 1..Len(child_lines) |->
                        _strip_leading_spaces(child_lines[k], base_indent)]
         ELSE <<current_line>> \o child_lines, LAMBDA lines :
    Bind(Join(lines, "\n"), LAMBDA joined :
      [line_start |-> line_start, line_end |-> line_end,
       current_line |-> current_line, base_indent |-> base_indent,
       child_lines |-> child_lines, lines |-> lines,
       block |-> RStrip(joined, {"\n"})]))))))))

_extract_line_with_children(text, start, end) == ExtractLocals(text, start, end).block

(***************************************************************************)
(* The regular expressions, as re.finditer applies them: leftmost first,   *)
(* matches not overlapping, the search resuming at the end of a match.     *)
(***************************************************************************)
NoMatch == [string |-> "", start |-> None, end |-> None, group1 |-> "", group2 |-> ""]

Match(s, a, b, g) == [string |-> s, start |-> a, end |-> b, group1 |-> g, group2 |-> ""]

\* the offset where the run of characters of `class` starting at p ends
SkipWhile(s, p, class) ==
    IF p >= Len(s) THEN p
    ELSE CHOOSE q \in p..Len(s) :
            /\ q = Len(s) \/ At(s, q) \notin class
            /\ \A r \in p..(q - 1) : At(s, r) \in class

\* the offset where the run of characters outside `stop` starting at p ends
SkipUntil(s, p, stop) ==
    LET stops == {q \in p..(Len(s) - 1) : At(s, q) \in stop}
    IN IF p >= Len(s) THEN p
       ELSE IF stops = {} THEN Len(s) ELSE Min(stops)

\* [a-zA-Z-_0-9]
TagChars ==
    {"a", "b", "c", "d", "e", "f", "g", "h", "i", "j", "k", "l", "m", "n", "o",
     "p", "q", "r", "s", "t", "u", "v", "w", "x", "y", "z",
     "A", "B", "C", "D", "E", "F", "G", "H", "I", "J", "K", "L", "M", "N", "O",
     "P", "Q", "R", "S", "T", "U", "V", "W", "X", "Y", "Z",
     "0", "1", "2", "3", "4", "5", "6", "7", "8", "9", "-", "_"}

\* r"\[\[([^\]\n]+)\]\]" tried at offset p
BracketAt(s, p) ==
    IF ~StartsWithAt(s, "[[", p) THEN NoMatch
    ELSE LET q == SkipUntil(s, p + 2, {"]", "\n"})
         IN IF q > p + 2 /\ StartsWithAt(s, "]]", q)
            THEN Match(s, p, q + 2, Slice(s, p + 2, q))
            ELSE NoMatch

\* r"#([a-zA-Z-_0-9]+)" tried at offset p
HashtagAt(s, p) ==
    IF ~StartsWithAt(s, "#", p) THEN NoMatch
    ELSE LET q == SkipWhile(s, p + 1, TagChars)
         IN IF q > p + 1 THEN Match(s, p, q, Slice(s, p + 1, q)) ELSE NoMatch

\* r"(?:[^:\n]|:[^:\n])+" from offset p: where the longest run of its units
\* ends.  A unit is one character other than ':' and newline, or a ':'
\* followed by such a character; no shorter run can be followed by "::".
RECURSIVE UnitsEnd(_, _)
UnitsEnd(s, p) ==
    IF p < Len(s) /\ At(s, p) \notin {":", "\n"} THEN UnitsEnd(s, p + 1)
    ELSE IF p + 1 < Len(s) /\ At(s, p) = ":" /\ At(s, p + 1) \notin {":", "\n"}
         THEN UnitsEnd(s, p + 2)
    ELSE p

\* r" *- ((?:[^:\n]|:[^:\n])+)::" from offset q, as a match starting at p
AttributeFrom(s, p, q) ==
    LET dash == SkipWhile(s, q, {" "})
        key == dash + 2
        stop == UnitsEnd(s, key)
    IN IF StartsWithAt(s, "- ", dash) /\ stop > key /\ StartsWithAt(s, "::", stop)
       THEN Match(s, p, stop + 2, Slice(s, key, stop))
       ELSE NoMatch

\* r"(?:^|\n) *- ((?:[^:\n]|:[^:\n])+)::" tried at offset p, without
\* re.MULTILINE: ^ matches at offset 0 only, and elsewhere the match starts
\* on the newline before the line.
AttributeAt(s, p) ==
    LET atStart == IF p = 0 THEN AttributeFrom(s, p, p) ELSE NoMatch
    IN IF atStart # NoMatch THEN atStart
       ELSE IF StartsWithAt(s, "\n", p) THEN AttributeFrom(s, p, p + 1)
       ELSE NoMatch

\* r"https?://\S+" tried at offset p
UrlAt(s, p) ==
    LET rest == IF StartsWithAt(s, "https://", p) THEN p + 8
                ELSE IF StartsWithAt(s, "http://", p) THEN p + 7
                ELSE None
        q == SkipUntil(s, rest, Whitespace)
    IN IF rest # None /\ q > rest THEN Match(s, p, q, "") ELSE NoMatch

\* re.escape(term) tried at offset p
TermAt(s, term, p) ==
    IF StartsWithAt(s, term, p) THEN Match(s, p, p + Len(term), "") ELSE NoMatch

\* r"(^ *- )(([^:\n]|:[^:\n])+)::" with re.MULTILINE tried at offset p: ^
\* matches at offset 0 and after every newline; group 1 is the list marker
\* with its indentation, group 2 the key.
AttributeLineAt(s, p) ==
    LET m == AttributeFrom(s, p, p)
    IN IF (p = 0 \/ StartsWithAt(s, "\n", p - 1)) /\ m # NoMatch
       THEN [m EXCEPT !.group1 = Slice(s, p, m.end - 2 - Len(m.group1)),
                      !.group2 = m.group1]
       ELSE NoMatch

\* r"{{\[\[TODO\]\]}} *" (marker "TODO") and r"{{\[\[DONE\]\]}} *" tried at p
MarkerAt(s, marker, p) ==
    LET token == "{{[[" \o marker \o "]]}}"
    IN IF StartsWithAt(s, token, p)
       THEN Match(s, p, SkipWhile(s, p + Len(token), {" "}), "")
       ELSE NoMatch

\* str.lower() on the ASCII letters
RECURSIVE Lower(_)
Lower(s) ==
    IF s = "" THEN ""
    ELSE LET k == Find("ABCDEFGHIJKLMNOPQRSTUVWXYZ", Head(s), 0)
         IN (IF k = -1 THEN Head(s) ELSE At("abcdefghijklmnopqrstuvwxyz", k))
                \o Lower(Tail(s))

\* r"^ *- +Aliases:: *(.+)$" with re.MULTILINE | re.IGNORECASE tried at p.
\* " *" is greedy and "(.+)" needs one character, so group 1 is the rest of
\* the line without its leading spaces, or its last space when it is all
\* spaces.
AliasesAt(s, p) ==
    LET dash == SkipWhile(s, p, {" "})
        name == SkipWhile(s, dash + 1, {" "})
        value == name + 9
        eol == SkipUntil(s, value, {"\n"})
        rest == LStrip(Slice(s, value, eol), {" "})
    IN IF /\ p = 0 \/ StartsWithAt(s, "\n", p - 1)
          /\ StartsWithAt(s, "-", dash)
          /\ name > dash + 1
          /\ value <= Len(s)
          /\ Lower(Slice(s, name, value)) = "aliases::"
          /\ eol > value
       THEN Match(s, p, eol, IF rest = "" THEN " " ELSE rest)
       ELSE NoMatch

\* The patterns of the module: kind names one, or is <<"term", t>> for
\* re.escape(t).
PatternAt(kind, s, p) ==
    CASE kind = "bracket" -> BracketAt(s, p)
      [] kind = "hashtag" -> HashtagAt(s, p)
      [] kind = "attribute" -> AttributeAt(s, p)
      [] kind = "attribute_line" -> AttributeLineAt(s, p)
      [] kind = "url" -> UrlAt(s, p)
      [] kind = "todo" -> MarkerAt(s, "TODO", p)
      [] kind = "done" -> MarkerAt(s, "DONE", p)
      [] kind = "aliases" -> AliasesAt(s, p)
      [] OTHER -> TermAt(s, kind[2], p)

\* list(re.finditer(pattern, s)) from offset p on, `at` being the offsets
\* at which the pattern matches: the leftmost match, then the search resumes
\* at its end
RECURSIVE FindIterFrom(_, _, _, _)
FindIterFrom(kind, s, at, p) ==
    Bind({q \in at : q >= p}, LAMBDA left :
      IF left = {} THEN <<>>
      ELSE Bind(PatternAt(kind, s, Min(left)), LAMBDA m :
             <<m>> \o FindIterFrom(kind, s, at, m.end)))

FindIter(kind, s) ==
    Bind({q \in 0..Len(s) : PatternAt(kind, s, q) # NoMatch}, LAMBDA at :
      FindIterFrom(kind, s, at, 0))

\* The text re.sub builds: s with each match ms[k], k >= from, replaced by
\* repls[k], copied from offset pos on.
RECURSIVE Splice(_, _, _, _, _)
Splice(s, ms, repls, from, pos) ==
    IF from > Len(ms) THEN Slice(s, pos, Len(s))
    ELSE Slice(s, pos, ms[from].start) \o repls[from]
            \o Splice(s, ms, repls, from + 1, ms[from].end)

\* match.expand(repl): repl is a replacement template cut into its parts,
\* the parts "\\1" and "\\2" standing for the groups of the match
RECURSIVE Expand(_, _)
Expand(repl, m) ==
    IF repl = <<>> THEN ""
    ELSE (CASE Head(repl) = "\\1" -> m.group1
            [] Head(repl) = "\\2" -> m.group2
            [] OTHER -> Head(repl))
            \o Expand(Tail(repl), m)

\* re.sub(pattern, repl, s)
ReSub(kind, s, repl) ==
    Bind(FindIter(kind, s), LAMBDA ms :
    Bind([k \in 1..Len(ms) |-> Expand(repl, ms[k])], LAMBDA repls :
      Splice(s, ms, repls, 1, 0)))

(***************************************************************************)
(* Link extraction, spans, mentions, aliases.                              *)
(***************************************************************************)
extract_links(string) ==
    Bind(FindIter("bracket", string), LAMBDA brackets :
    Bind(FindIter("hashtag", string), LAMBDA hashtags :
    Bind(FindIter("attribute", string), LAMBDA attributes :
      brackets \o hashtags \o attributes)))

\* The printable ASCII characters in code-point order (the backquote left
\* out): str comparison orders two characters as their offsets in it, with
\* -1 for the control characters, which sort first.
Ascii ==
    " !\"#$%&'()*+,-./0123456789:;<=>?@ABCDEFGHIJKLMNOPQRSTUVWXYZ[\\]^_abcdefghijklmnopqrstuvwxyz{|}~"

Ord(c) == Find(Ascii, c, 0)

\* a < b on str
RECURSIVE StrLess(_, _)
StrLess(a, b) ==
    IF b = "" THEN FALSE
    ELSE IF a = "" THEN TRUE
    ELSE IF Head(a) = Head(b) THEN StrLess(Tail(a), Tail(b))
    ELSE Ord(Head(a)) < Ord(Head(b))

\* a < b on the sort keys (str, int)
KeyLess(a, b) == StrLess(a[1], b[1]) \/ (a[1] = b[1] /\ a[2] < b[2])

\* list.insert of the pair e = <<key, value>> into a list sorted by key,
\* after the pairs with an equal key
RECURSIVE InsertSorted(_, _)
InsertSorted(sorted, e) ==
    IF sorted = <<>> THEN <<e>>
    ELSE IF KeyLess(e[1], Head(sorted)[1]) THEN <<e>> \o sorted
    ELSE <<Head(sorted)>> \o InsertSorted(Tail(sorted), e)

\* sorted(...) of a list of <<key, value>> pairs by key: a stable sort
RECURSIVE SortedPairs(_)
SortedPairs(list) ==
    IF list = <<>> THEN <<>>
    ELSE InsertSorted(SortedPairs(SubSeq(list, 1, Len(list) - 1)), list[Len(list)])

\* sorted(list, key=...), for the list given as <<key, value>> pairs, the
\* key being a (str, int) pair
Sorted(keyed) ==
    Bind(SortedPairs(keyed), LAMBDA pairs : [k \in 1..Len(pairs) |-> pairs[k][2]])

_link_spans(matches) ==
    Bind([k \in 1..Len(matches) |->
             <<<<"", matches[k].start>>, <<matches[k].start, matches[k].end>>>>],
         LAMBDA keyed : Sorted(keyed))

_url_spans(text) ==
    Bind(FindIter("url", text), LAMBDA ms :
      [k \in 1..Len(ms) |-> <<ms[k].start, ms[k].end>>])

\* A faulty containment scan, which looks at the first span only.
inside_first_span(spans, pos) ==
    spans # <<>> /\ Head(spans)[1] <= pos /\ pos < Head(spans)[2]

\* inside(pos), inside_url(pos) of _find_mentions_outside_links: the scan of
\* the spans in list order, stopping at the first span that starts after pos
RECURSIVE inside(_, _)
inside(spans, pos) ==
    IF spans = <<>> THEN FALSE
    ELSE IF Head(spans)[1] <= pos /\ pos < Head(spans)[2] THEN TRUE
    ELSE IF Head(spans)[1] > pos THEN FALSE
    ELSE inside(Tail(spans), pos)

_find_mentions_outside_links(text, term, link_spans, url_spans) ==
    IF term = "" THEN <<>>
    ELSE Bind(FindIter(<<"term", term>>, text), LAMBDA ms :
           SelectSeq(ms, LAMBDA m : ~(inside(link_spans, m.start)
                                        \/ inside(url_spans, m.start))))

\* the aliases that the loop of _extract_aliases appends for the matches
RECURSIVE Extend(_)
Extend(matches) ==
    IF matches = <<>> THEN <<>>
    ELSE Bind(Split(Head(matches).group1, ","), LAMBDA raw :
         Bind([j \in 1..Len(raw) |-> Strip(raw[j])], LAMBDA stripped :
           SelectSeq(stripped, LAMBDA a : a # "") \o Extend(Tail(matches))))

_extract_aliases(content) ==
    Bind(FindIter("aliases", content), LAMBDA matches : Extend(matches))

\* whether e is an element of the list
Among(list, e) == \E k \in 1..Len(list) : list[k] = e

RECURSIVE _unique_terms(_)
_unique_terms(terms) ==
    IF terms = <<>> THEN <<>>
    ELSE Bind(_unique_terms(SubSeq(terms, 1, Len(terms) - 1)), LAMBDA before :
           IF Among(before, terms[Len(terms)]) THEN before
           ELSE Append(before, terms[Len(terms)]))

(***************************************************************************)
(* Dicts.                                                                  *)
(***************************************************************************)
EmptyDict == [k \in {} |-> <<>>]

\* d[k] of a defaultdict(list), where it does not insert
Get(d, k) == IF k \in DOMAIN d THEN d[k] ELSE <<>>

\* d[k] of a defaultdict(list), as to the dict it leaves: a missing key is
\* inserted with an empty list
Touch(d, k) == IF k \in DOMAIN d THEN d ELSE d @@ (k :> <<>>)

\* d[k].append(v) on a defaultdict(list)
DictAppend(d, k, v) ==
    IF k \in DOMAIN d THEN [d EXCEPT ![k] = Append(@, v)] ELSE d @@ (k :> <<v>>)

\* items[file_name] of a dict kept as a sequence of items
RECURSIVE Lookup(_, _, _)
Lookup(items, file_name, field) ==
    IF Head(items).file_name = file_name THEN Head(items)[field]
    ELSE Lookup(Tail(items), file_name, field)

Keys(items) == {items[k].file_name : k \in 1..Len(items)}

\* file_name[:-3]
StripExtension(file_name) == Slice(file_name, 0, Len(file_name) - 3)

(***************************************************************************)
(* The indexes.  A backlink entry is [file_name, link]; an unlinked-mention*)
(* entry is [source_file, term, match].                                    *)
(***************************************************************************)
\* the inner loop of _build_back_links, over the links of one file
RECURSIVE AppendBackLinks(_, _, _)
AppendBackLinks(d, file_name, links) ==
    IF links = <<>> THEN d
    ELSE Bind(DictAppend(d, Head(links).group1 \o ".md",
                         [file_name |-> file_name, link |-> Head(links)]),
              LAMBDA appended : AppendBackLinks(appended, file_name, Tail(links)))

\* the outer loop of _build_back_links, over forward_links.items()
RECURSIVE BackLinksLoop(_, _)
BackLinksLoop(d, forward) ==
    IF forward = <<>> THEN d
    ELSE Bind(AppendBackLinks(d, Head(forward).file_name, Head(forward).links),
              LAMBDA appended : BackLinksLoop(appended, Tail(forward)))

_build_back_links(forward_links_) == BackLinksLoop(EmptyDict, forward_links_)

\* the loop over the matches of one term: the entries found so far (whose
\* spans are seen_spans), extended by the matches whose span is new
RECURSIVE AppendMentions(_, _, _, _)
AppendMentions(found, source_file, term, matches) ==
    IF matches = <<>> THEN found
    ELSE LET m == Head(matches)
             seen == \E k \in 1..Len(found) :
                        /\ found[k].match.start = m.start
                        /\ found[k].match.end = m.end
         IN Bind(IF seen THEN found
                 ELSE Append(found, [source_file |-> source_file, term |-> term,
                                     match |-> m]),
                 LAMBDA appended :
                   AppendMentions(appended, source_file, term, Tail(matches)))

\* the loop over the terms of one target page, in one source file
RECURSIVE TermsLoop(_, _, _, _, _, _)
TermsLoop(found, source_file, content, terms, spans, url_spans) ==
    IF terms = <<>> THEN found
    ELSE Bind(_find_mentions_outside_links(content, Head(terms), spans, url_spans),
              LAMBDA matches :
         Bind(AppendMentions(found, source_file, Head(terms), matches),
              LAMBDA appended :
           TermsLoop(appended, source_file, content, Tail(terms), spans, url_spans)))

\* unlinked[target_file].append(e) for each entry e
RECURSIVE AppendEntries(_, _, _)
AppendEntries(d, target_file, entries) ==
    IF entries = <<>> THEN d
    ELSE Bind(DictAppend(d, target_file, Head(entries)), LAMBDA appended :
           AppendEntries(appended, target_file, Tail(entries)))

\* the body of the loop over page_names past its `continue`: the mentions
\* of one target page in one source file, appended to the index
AppendTargetMentions(d, source, target, spans, url_spans) ==
    Bind(_extract_aliases(target.content), LAMBDA aliases :
    Bind(_unique_terms(<<StripExtension(target.file_name)>> \o aliases),
         LAMBDA terms :
    Bind(TermsLoop(<<>>, source.file_name, source.content, terms, spans, url_spans),
         LAMBDA found : AppendEntries(d, target.file_name, found))))

\* A faulty iteration, which scans a source file for mentions of itself too.
ScanTargetWithSelf(d, source, target, spans, url_spans) ==
    AppendTargetMentions(d, source, target, spans, url_spans)

\* one iteration of the loop over page_names: a source file is not scanned
\* for mentions of itself
ScanTarget(d, source, target, spans, url_spans) ==
    IF target.file_name = source.file_name THEN d
    ELSE AppendTargetMentions(d, source, target, spans, url_spans)

\* the loop over page_names, for one source file
RECURSIVE TargetsLoop(_, _, _, _, _)
TargetsLoop(d, source, targets, spans, url_spans) ==
    IF targets = <<>> THEN d
    ELSE Bind(ScanTarget(d, source, Head(targets), spans, url_spans),
              LAMBDA appended :
           TargetsLoop(appended, source, Tail(targets), spans, url_spans))

\* the loop over contents.items(), the source files
RECURSIVE SourcesLoop(_, _, _, _)
SourcesLoop(d, sources, contents_, forward_links_) ==
    IF sources = <<>> THEN d
    ELSE Bind(Lookup(forward_links_, Head(sources).file_name, "links"),
              LAMBDA links :
         Bind(_link_spans(links), LAMBDA spans :
         Bind(_url_spans(Head(sources).content), LAMBDA url_spans :
         Bind(TargetsLoop(d, Head(sources), contents_, spans, url_spans),
              LAMBDA appended :
           SourcesLoop(appended, Tail(sources), contents_, forward_links_)))))

_build_unlinked_links(contents_, forward_links_) ==
    SourcesLoop(EmptyDict, contents_, contents_, forward_links_)

(***************************************************************************)
(* Rendering.                                                              *)
(***************************************************************************)
\* str(n), n >= 0
RECURSIVE Str(_)
Str(n) ==
    IF n < 10 THEN At("0123456789", n)
    ELSE Str(n \div 10) \o At("0123456789", n % 10)

\* the heading that links to a source file
FileHeading(marks, file) == marks \o " [" \o file \o "](<" \o file \o ".md>)"

\* the loop of add_back_links over the sorted entries; file_before is <<>>
\* for None and <<file>> otherwise
RECURSIVE BackLinkLines(_, _)
BackLinkLines(files, file_before) ==
    IF files = <<>> THEN <<>>
    ELSE LET file == Head(files).file
             match == Head(files).match
         IN Bind(_extract_line_with_children(match.string, match.start, match.end),
                 LAMBDA context :
              (IF <<file>> # file_before THEN <<FileHeading("##", file)>> ELSE <<>>)
                  \o <<context, "">>
                  \o BackLinkLines(Tail(files), <<file>>))

\* sorted(set((file_name[:-3], match) ...), key=lambda e: (e[0], e[1].start())).
\* Match objects are equal only when identical, so the set drops nothing.
SortedBackLinks(back_links_) ==
    Bind([k \in 1..Len(back_links_) |->
             <<<<StripExtension(back_links_[k].file_name), back_links_[k].link.start>>,
               [file |-> StripExtension(back_links_[k].file_name),
                match |-> back_links_[k].link]>>],
         LAMBDA keyed : Sorted(keyed))

\* A faulty add_back_links, without the early return on an empty list.
add_back_links_unguarded(content, back_links_) ==
    content \o "\n# Backlinks (" \o Str(Len(back_links_)) \o ")\n"
        \o Join(BackLinkLines(SortedBackLinks(back_links_), <<>>), "\n") \o "\n"

add_back_links(content, back_links_) ==
    IF back_links_ = <<>> THEN content
    ELSE Bind(SortedBackLinks(back_links_), LAMBDA files :
         Bind(BackLinkLines(files, <<>>), LAMBDA new_lines :
         Bind(Join(new_lines, "\n"), LAMBDA backlinks_str :
           content \o "\n# Backlinks (" \o Str(Len(back_links_)) \o ")\n"
               \o backlinks_str \o "\n")))

\* the loop of add_unlinked_links over the sorted entries of one term: the
\* lines it appends and the number of blocks it displays
RECURSIVE UnlinkedEntryLines(_, _, _)
UnlinkedEntryLines(entries, file_before, seen_blocks) ==
    IF entries = <<>> THEN [lines |-> <<>>, count |-> 0]
    ELSE LET match == Head(entries).match
             file == StripExtension(Head(entries).source_file)
             heading == IF <<file>> # file_before
                        THEN <<FileHeading("###", file)>> ELSE <<>>
         IN Bind(_extract_line_with_children(match.string, match.start, match.end),
                 LAMBDA context :
            Bind(UnlinkedEntryLines(Tail(entries), <<file>>,
                                    seen_blocks \cup {<<file, context>>}),
                 LAMBDA rest :
              IF <<file, context>> \in seen_blocks
              THEN [lines |-> heading \o rest.lines, count |-> rest.count]
              ELSE [lines |-> heading \o <<context, "">> \o rest.lines,
                    count |-> rest.count + 1]))

\* the loop of add_unlinked_links over sorted(grouped.keys())
RECURSIVE UnlinkedTermLines(_, _)
UnlinkedTermLines(terms, unlinked_links_) ==
    IF terms = <<>> THEN [lines |-> <<>>, count |-> 0]
    ELSE Bind(SelectSeq(unlinked_links_, LAMBDA e : e.term = Head(terms)),
              LAMBDA grouped :
         Bind([k \in 1..Len(grouped) |->
                  <<<<grouped[k].source_file, grouped[k].match.start>>, grouped[k]>>],
              LAMBDA keyed :
         Bind(Sorted(keyed), LAMBDA entries :
         Bind(UnlinkedEntryLines(entries, <<>>, {}), LAMBDA here :
         Bind(UnlinkedTermLines(Tail(terms), unlinked_links_), LAMBDA rest :
           [lines |-> <<"## " \o Head(terms)>> \o here.lines \o rest.lines,
            count |-> here.count + rest.count])))))

add_unlinked_links(content, unlinked_links_) ==
    IF unlinked_links_ = <<>> THEN content
    ELSE Bind([k \in 1..Len(unlinked_links_) |-> unlinked_links_[k].term],
              LAMBDA all_terms :
         Bind(_unique_terms(all_terms), LAMBDA keys :
         Bind(Sorted([k \in 1..Len(keys) |-> <<<<keys[k], 0>>, keys[k]>>]),
              LAMBDA terms :
         Bind(UnlinkedTermLines(terms, unlinked_links_), LAMBDA new :
         Bind(Join(new.lines, "\n"), LAMBDA backlinks_str :
           IF new.count = 0 THEN content
           ELSE content \o "\n# Unlinked references (" \o Str(new.count) \o ")\n"
                   \o backlinks_str \o "\n")))))

format_to_do(contents_) ==
    Bind(ReSub("todo", contents_, <<"[ ] ">>), LAMBDA todo :
      ReSub("done", todo, <<"[x] ">>))

format_link(string, link_prefix) ==
    Bind(ReSub("bracket", string, <<"[", "\\1", "](<", link_prefix, "\\1", ".md>)">>),
         LAMBDA brackets :
    Bind(ReSub("hashtag", brackets, <<"[", "\\1", "](<", link_prefix, "\\1", ".md>)">>),
         LAMBDA hashtags :
      ReSub("attribute_line", hashtags,
            <<"\\1", "**[", "\\2", "](<", link_prefix, "\\2", ".md>):**">>)))

\* "../" * sum("/" in char for char in file_name)
RECURSIVE LinkPrefix(_)
LinkPrefix(file_name) ==
    IF file_name = "" THEN ""
    ELSE (IF Head(file_name) = "/" THEN "../" ELSE "") \o LinkPrefix(Tail(file_name))

\* the body of the rendering loop of format_markdown: the final text of a file
RenderedContent(file_name, content, back_links_, unlinked_links_) ==
    Bind(Get(back_links_, file_name), LAMBDA incoming :
    Bind(add_back_links(content, incoming), LAMBDA with_back_links :
    Bind(Get(unlinked_links_, file_name), LAMBDA mentions :
    Bind(add_unlinked_links(with_back_links, mentions), LAMBDA with_unlinked :
    Bind(format_to_do(with_unlinked), LAMBDA with_to_do :
    Bind(LinkPrefix(file_name), LAMBDA link_prefix :
      format_link(with_to_do, link_prefix)))))))

\* A faulty store, which keeps a file whose final text is empty.
StoreAlways(out_, file_name, content) == out_ @@ (file_name :> content)

\* `if len(content) > 0: out[file_name] = content`
Store(out_, file_name, content) ==
    IF Len(content) > 0 THEN out_ @@ (file_name :> content) ELSE out_

(***************************************************************************)
(* Bounded inputs.                                                         *)
(***************************************************************************)
MaxLines == 2       \* lines of the source document S.md
MaxIndent == 3      \* leading spaces of a line handed to context extraction
MaxChildren == 4    \* lines below the referencing line

\* " " * n
RECURSIVE Spaces(_)
Spaces(n) == IF n = 0 THEN "" ELSE " " \o Spaces(n - 1)

\* the sequences over S of length at most n
RECURSIVE SeqsUpTo(_, _)
SeqsUpTo(S, n) ==
    IF n = 0 THEN {<<>>}
    ELSE LET shorter == SeqsUpTo(S, n - 1)
         IN shorter \cup {Append(q, x) : q \in {r \in shorter : Len(r) = n - 1}, x \in S}

\* the lines of S.md: plain text, a Reference to T.md in each of the three
\* syntaxes, a Reference to the nested d/N.md, a todo marker (which holds a
\* Reference to TODO.md, a document that does not exist), a plain mention of
\* T, a URL that holds T's name followed by a plain mention of T's alias
SourceLines ==
    {"x", "[[T]]", "#T", "- T:: v", "[[d/N]]", "{{[[TODO]]}} x", "a T", "http://T Alt"}

SourceTexts == {Join(ls, "\n") : ls \in SeqsUpTo(SourceLines, MaxLines)}

\* the texts of T.md: empty, referring to itself in each syntax and in plain
\* text, declaring an alias, referring to S.md and mentioning it
TargetTexts == {"", "[[T]] T", "#T\n- T:: v", "- Aliases:: Alt", "[[S]] S"}

\* the texts of d/N.md: empty, referring to T.md and mentioning it
NestedTexts == {"", "[[T]] T"}

Doc(file_name, content) == [file_name |-> file_name, content |-> content]

Corpora ==
    {<<Doc("T.md", t), Doc("S.md", s), Doc("d/N.md", n)>> :
        t \in TargetTexts, s \in SourceTexts, n \in NestedTexts}

(***************************************************************************)
(* format_markdown as a state machine: one step per loop iteration and per *)
(* index built.                                                            *)
(***************************************************************************)
NoCall == [text |-> "", start |-> 0, end |-> 0]

Init ==
    /\ contents \in Corpora
    /\ pc = "forward_links"
    /\ forward_links = <<>>
    /\ back_links = EmptyDict
    /\ unlinked_links = EmptyDict
    /\ out = EmptyDict
    /\ idx = 0
    /\ ctx = NoCall
    /\ locals = ExtractLocals("", 0, 0)
    /\ again = ""

\* A faulty first pass, which extracts the links of a text after its todo
\* markers are rewritten.
ExtractLinksRewritten ==
    /\ pc = "forward_links"
    /\ idx < Len(contents)
    /\ \E links \in {extract_links(format_to_do(contents[idx + 1].content))} :
          forward_links' = Append(forward_links,
                                  [file_name |-> contents[idx + 1].file_name,
                                   links |-> links])
    /\ idx' = idx + 1
    /\ UNCHANGED <<pc, contents, back_links, unlinked_links, out, ctx, locals, again>>

\* one item of the dict comprehension that builds forward_links
ExtractLinks ==
    /\ pc = "forward_links"
    /\ idx < Len(contents)
    /\ \E links \in {extract_links(contents[idx + 1].content)} :
          forward_links' = Append(forward_links,
                                  [file_name |-> contents[idx + 1].file_name,
                                   links |-> links])
    /\ idx' = idx + 1
    /\ UNCHANGED <<pc, contents, back_links, unlinked_links, out, ctx, locals, again>>

BuildBackLinks ==
    /\ pc = "forward_links"
    /\ idx = Len(contents)
    /\ back_links' = _build_back_links(forward_links)
    /\ pc' = "unlinked_links"
    /\ UNCHANGED <<contents, forward_links, unlinked_links, out, idx, ctx, locals, again>>

BuildUnlinkedLinks ==
    /\ pc = "unlinked_links"
    /\ unlinked_links' = _build_unlinked_links(contents, forward_links)
    /\ pc' = "render"
    /\ idx' = 0
    /\ UNCHANGED <<contents, forward_links, back_links, out, ctx, locals, again>>

\* one iteration of the rendering loop.  Reading back_links[file_name] and
\* unlinked_links[file_name] inserts the key into the defaultdict.
RenderDocument ==
    /\ pc = "render"
    /\ idx < Len(contents)
    /\ LET file_name == contents[idx + 1].file_name
       IN /\ back_links' = Touch(back_links, file_name)
          /\ unlinked_links' = Touch(unlinked_links, file_name)
          /\ \E content \in {RenderedContent(file_name, contents[idx + 1].content,
                                              back_links, unlinked_links)} :
                out' = Store(out, file_name, content)
    /\ idx' = idx + 1
    /\ UNCHANGED <<pc, contents, forward_links, ctx, locals, again>>

Return ==
    /\ pc = "render"
    /\ idx = Len(contents)
    /\ pc' = "done"
    /\ UNCHANGED <<contents, forward_links, back_links, unlinked_links, out, idx,
                   ctx, locals, again>>

Next == ExtractLinks \/ BuildBackLinks \/ BuildUnlinkedLinks \/ RenderDocument \/ Return

Spec == Init /\ [][Next]_vars

(***************************************************************************)
(* _extract_line_with_children on its own: a call on a text and the span   *)
(* of a reference or of an unlinked mention in it, then a second call on   *)
(* the block the first returned.                                           *)
(***************************************************************************)
CtxChildLines == {Spaces(i) \o "x" : i \in 0..MaxIndent} \cup {"", " "}

\* the referencing line: a hash-tag, an attribute declaration, a mention
CtxRefLines == {Spaces(i) \o b : i \in 0..MaxIndent, b \in {"#T", "- T::", "T"}}

\* an optional line above the referencing line, the referencing line, the
\* lines below it
CtxTexts ==
    {Join(above \o <<ref>> \o below, "\n") :
        above \in {<<>>, <<"x">>}, ref \in CtxRefLines,
        below \in SeqsUpTo(CtxChildLines, MaxChildren)}

\* the spans format_markdown hands to _extract_line_with_children for a
\* text: those of its links, and those of the unlinked mentions of T
CtxSpans(text) ==
    LET links == extract_links(text)
        mentions == _find_mentions_outside_links(text, "T", _link_spans(links),
                                                 _url_spans(text))
    IN {<<links[k].start, links[k].end>> : k \in 1..Len(links)}
       \cup {<<mentions[k].start, mentions[k].end>> : k \in 1..Len(mentions)}

InitCtx ==
    /\ \E text \in CtxTexts : \E span \in CtxSpans(text) :
          ctx = [text |-> text, start |-> span[1], end |-> span[2]]
    /\ pc = "call"
    /\ locals = ExtractLocals("", 0, 0)
    /\ again = ""
    /\ contents = <<>>
    /\ forward_links = <<>>
    /\ back_links = EmptyDict
    /\ unlinked_links = EmptyDict
    /\ out = EmptyDict
    /\ idx = 0

Extract ==
    /\ pc = "call"
    /\ locals' = ExtractLocals(ctx.text, ctx.start, ctx.end)
    /\ pc' = "returned"
    /\ UNCHANGED <<contents, forward_links, back_links, unlinked_links, out, idx,
                   ctx, again>>

\* the first line of a block
FirstLine(block) == Split(block, "\n")[1]

ExtractAgain ==
    /\ pc = "returned"
    /\ \E start \in 0..Len(FirstLine(locals.block)) :
          \E end \in {start, Len(FirstLine(locals.block))} :
             again' = _extract_line_with_children(locals.block, start, end)
    /\ pc' = "again"
    /\ UNCHANGED <<contents, forward_links, back_links, unlinked_links, out, idx,
                   ctx, locals>>

NextCtx == Extract \/ ExtractAgain

SpecCtx == InitCtx /\ [][NextCtx]_vars

(***************************************************************************)
(* Properties of context extraction, checked under SpecCtx.                *)
(***************************************************************************)
\* a line that is empty or whitespace-only
Blank(line) == Strip(line) = ""

\* Among the lines kept below the referencing line, the nearest line above
\* line k that is non-blank and strictly less indented: the parent of line
\* k, or 0 when its parent is the referencing line.
Parent(lines, k) ==
    LET above == {j \in 1..(k - 1) : /\ ~Blank(lines[j])
                                     /\ LeadingSpaces(lines[j]) < LeadingSpaces(lines[k])}
    IN IF above = {} THEN 0 ELSE Max(above)

\* how many levels below the referencing line the kept line k is nested
RECURSIVE Level(_, _)
Level(lines, k) ==
    IF Parent(lines, k) = 0 THEN 1 ELSE 1 + Level(lines, Parent(lines, k))

\* C1: the block holds the referencing line and at most two further levels
\* of nested lines: no kept non-blank line is nested more than two levels
\* below the referencing line, and none is indented at or below the base
\* indent, whatever the indentation of the lines.
AtMostTwoLevels ==
    pc = "returned" =>
        \A k \in 1..Len(locals.child_lines) :
            ~Blank(locals.child_lines[k]) =>
                /\ Level(locals.child_lines, k) <= 2
                /\ LeadingSpaces(locals.child_lines[k]) > locals.base_indent

\* the line of the text that holds the target name of the reference or
\* mention of the call: the line on which its span ends
RefLine ==
    LET first == RFind(ctx.text, "\n", ctx.end - 1) + 1
        f == Find(ctx.text, "\n", ctx.end)
    IN RStrip(Slice(ctx.text, first, IF f = -1 THEN Len(ctx.text) ELSE f), Whitespace)

\* `emitted` is `line` without b of its leading spaces, or `line` itself
\* when it is blank
DedentedBy(emitted, line, b) ==
    IF Blank(line) THEN emitted = line
    ELSE /\ LeadingSpaces(emitted) = LeadingSpaces(line) - b
         /\ LStrip(emitted, {" "}) = LStrip(line, {" "})

\* C5: when the referencing line has base indent b > 0, the block is
\* dedented by exactly b: the referencing line is emitted with no leading
\* space, a kept non-blank line of indent i with i - b leading spaces, and a
\* blank line unchanged.
DedentedByBaseIndent ==
    pc = "returned" /\ LeadingSpaces(RefLine) > 0 =>
        LET emitted == Split(locals.block, "\n")
            kept == <<RefLine>> \o locals.child_lines
        IN /\ Len(emitted) <= Len(kept)
           /\ \A k \in 1..Len(emitted) :
                 k <= Len(kept) => DedentedBy(emitted[k], kept[k], LeadingSpaces(RefLine))

\* C6: context extraction is idempotent: extracting from the block B that a
\* call returned, with a span in B's first line, returns B.
ExtractionIdempotent == pc = "again" => again = locals.block

\* C9: the returned block never ends with a blank line: the blank lines
\* collected last are all trimmed.
NoTrailingBlankLine ==
    pc = "returned" =>
        LET emitted == Split(locals.block, "\n")
        IN ~Blank(emitted[Len(emitted)])

(***************************************************************************)
(* Properties of format_markdown, checked under Spec.                      *)
(***************************************************************************)
Range(seq) == {seq[k] : k \in 1..Len(seq)}

\* the raw text of a document of the corpus
Content(file_name) == Lookup(contents, file_name, "content")

\* The References of the corpus to document D, read off the raw texts:
\* <<k, j>> for the j-th Reference of the k-th document.
Incoming(D) ==
    UNION {{<<k, j>> : j \in {i \in 1..Len(extract_links(contents[k].content)) :
                                 extract_links(contents[k].content)[i].group1 \o ".md" = D}} :
           k \in 1..Len(contents)}

\* the documents rendered so far
Rendered == IF pc \in {"render", "done"} THEN {contents[k].file_name : k \in 1..idx} ELSE {}

\* C2: a rendered document D has a "# Backlinks (n)" section exactly when
\* some Reference of the corpus has a target name that, with ".md", is D's
\* key, n counting these References; the backlink index files a Reference
\* under its computed key only, so one that names no document reaches no
\* document's output.
BacklinksIffReferenced ==
    /\ \A D \in Rendered :
          LET n == Cardinality(Incoming(D))
          IN /\ Len(Get(back_links, D)) = n
             /\ IF n > 0
                THEN /\ D \in DOMAIN out
                     /\ Find(out[D], "\n# Backlinks (" \o Str(n) \o ")\n", 0) # -1
                ELSE D \in DOMAIN out => Find(out[D], "# Backlinks", 0) = -1
    /\ DOMAIN out \subseteq Rendered

BacklinksIffReferencedWitness ==
    /\ pc = "done"
    /\ Content("S.md") = "{{[[TODO]]}} x\n[[T]]"
    /\ "TODO.md" \in DOMAIN back_links
    /\ Cardinality(Incoming("T.md")) = 1
    /\ Find(out["T.md"], "\n# Backlinks (1)\n", 0) # -1
    /\ Incoming("S.md") = {}
    /\ Find(out["S.md"], "# Backlinks", 0) = -1

\* the spans of the References and of the URLs of a text
CoveringSpans(text) ==
    {<<m.start, m.end>> : m \in Range(extract_links(text)) \cup Range(FindIter("url", text))}

\* the name and the aliases of the k-th document
TermsOf(k) ==
    ({StripExtension(contents[k].file_name)} \cup Range(_extract_aliases(contents[k].content)))
        \ {""}

\* every literal occurrence of a term of the k-th document in another
\* document starts inside a Reference span or a URL span of that document
AllMentionsLinked(k) ==
    \A i \in 1..Len(contents) : i # k =>
        \A term \in TermsOf(k) : \A p \in 0..Len(contents[i].content) :
            StartsWithAt(contents[i].content, term, p) =>
                \E sp \in CoveringSpans(contents[i].content) : sp[1] <= p /\ p < sp[2]

\* C3: when every occurrence of T's name and aliases in the other documents
\* starts inside a Reference span or a URL span, the unlinked-mention index
\* has no entry for T and T gets no "# Unlinked references" section.
NoUnlinkedSectionWhenLinked ==
    pc \in {"render", "done"} =>
        \A k \in 1..Len(contents) : AllMentionsLinked(k) =>
            LET T == contents[k].file_name
            IN /\ Get(unlinked_links, T) = <<>>
               /\ T \in DOMAIN out => Find(out[T], "# Unlinked references", 0) = -1

NoUnlinkedSectionWhenLinkedWitness ==
    /\ pc = "done"
    /\ Content("S.md") = "http://T Alt\n[[T]]"
    /\ Content("T.md") = ""
    /\ AllMentionsLinked(1)
    /\ Find(out["T.md"], "\n# Backlinks (1)\n", 0) # -1
    /\ Find(out["T.md"], "# Unlinked references", 0) = -1

\* the entries of an index filed under T whose source document is T itself
SelfEntries(index, T, field) == {e \in Range(Get(index, T)) : e[field] = T}

\* the indexes are built: the backlink index, and the unlinked-mention index
BackLinksBuilt == pc \in {"unlinked_links", "render", "done"}

UnlinkedLinksBuilt == pc \in {"render", "done"}

\* C4, as the code has it: the unlinked-mention index of a document T never
\* holds an entry whose source is T, even when T's text holds its own name
\* or alias in plain text; the backlink index of T holds one entry whose
\* source is T for each Reference to T in T's own text.
NoSelfMention ==
    /\ UnlinkedLinksBuilt =>
          \A T \in DOMAIN unlinked_links : SelfEntries(unlinked_links, T, "source_file") = {}
    /\ BackLinksBuilt =>
          \A k \in 1..Len(contents) :
             LET T == contents[k].file_name
             IN Cardinality(SelfEntries(back_links, T, "file_name"))
                   = Cardinality({e \in Incoming(T) : e[1] = k})

NoSelfMentionWitness ==
    /\ pc = "render"
    /\ Content("T.md") = "[[T]] T"
    /\ Cardinality(SelfEntries(back_links, "T.md", "file_name")) = 1
    /\ SelfEntries(unlinked_links, "T.md", "source_file") = {}

\* C4, as stated: after the indexes are built, neither the backlink index
\* nor the unlinked-mention index of a document T holds an entry whose
\* source document is T.
NeverSelfReference ==
    /\ BackLinksBuilt =>
          \A T \in DOMAIN back_links : SelfEntries(back_links, T, "file_name") = {}
    /\ UnlinkedLinksBuilt =>
          \A T \in DOMAIN unlinked_links : SelfEntries(unlinked_links, T, "source_file") = {}

\* C7: the keys of the output are exactly the input keys whose final text
\* is not empty: no other key appears, whatever the References name; a
\* document whose final text is empty is left out; a document whose raw
\* text is empty and that has a backlink or an unlinked mention is kept.
OutputKeys ==
    pc = "done" =>
        /\ DOMAIN out \subseteq Keys(contents)
        /\ \A k \in 1..Len(contents) :
              LET D == contents[k].file_name
                  final == RenderedContent(D, contents[k].content, back_links, unlinked_links)
              IN /\ D \in DOMAIN out <=> Len(final) > 0
                 /\ D \in DOMAIN out => out[D] = final
                 /\ (contents[k].content = ""
                        /\ (Incoming(D) # {} \/ Get(unlinked_links, D) # <<>>))
                       => D \in DOMAIN out

OutputKeysWitness ==
    /\ pc = "done"
    /\ Content("S.md") = "[[T]]\n{{[[TODO]]}} x"
    /\ Content("T.md") = ""
    /\ "T.md" \in DOMAIN out
    /\ "d/N.md" \in Keys(contents)
    /\ "d/N.md" \notin DOMAIN out
    /\ "TODO.md" \in DOMAIN back_links

\* C8: for every backlink entry of a rendered document, the referencing line
\* of the quoted block is the one source line that holds the Reference's target name: the block
\* begins where that line begins, its first line is that line alone, and the
\* base indent is the count of that line's leading spaces.
ReferencingLineIsSourceLine ==
    \A D \in Rendered : \A e \in Range(Get(back_links, D)) :
            LET m == e.link
                first == RFind(m.string, "\n", m.end - 1) + 1
                f == Find(m.string, "\n", m.end)
                line == Slice(m.string, first, IF f = -1 THEN Len(m.string) ELSE f)
                called == ExtractLocals(m.string, m.start, m.end)
            IN /\ called.line_start = first
               /\ called.current_line = RStrip(line, Whitespace)
               /\ called.base_indent = LeadingSpaces(line)

\* the text that the rewriting passes make of a block quoted in document D
Shown(block, D) == format_link(format_to_do(block), LinkPrefix(D))

\* Every entry of both indexes holds a match on the raw text of its source
\* document, at the offsets the match has in it.
EntriesOnRawText ==
    /\ \A D \in DOMAIN back_links : \A e \in Range(back_links[D]) :
          /\ e.link.string = Content(e.file_name)
          /\ e.link \in Range(extract_links(Content(e.file_name)))
    /\ \A D \in DOMAIN unlinked_links : \A e \in Range(unlinked_links[D]) :
          /\ e.match.string = Content(e.source_file)
          /\ Slice(Content(e.source_file), e.match.start, e.match.end) = e.term

\* Every rendered document quotes, for each Reference to it and for each
\* unlinked mention of it, the block extracted from the raw text of the
\* source document at the offsets of the Reference or mention in that text.
QuotedFromRawText ==
    \A D \in Rendered :
        /\ \A r \in Incoming(D) :
              LET text == contents[r[1]].content
                  m == extract_links(text)[r[2]]
                  block == _extract_line_with_children(text, m.start, m.end)
              IN D \in DOMAIN out
                    /\ Find(out[D], "\n" \o Shown(block, D) \o "\n", 0) # -1
        /\ \A e \in Range(Get(unlinked_links, D)) :
              LET text == Content(e.source_file)
                  block == _extract_line_with_children(text, e.match.start, e.match.end)
              IN D \in DOMAIN out
                    /\ Find(out[D], "\n" \o Shown(block, D) \o "\n", 0) # -1

\* While a text has been rendered or is about to be, the links of every
\* document are extracted and the backlink index holds every Reference.
IndexesComplete ==
    (out # EmptyDict \/ pc \in {"render", "done"}) =>
        /\ pc \in {"render", "done"}
        /\ Len(forward_links) = Len(contents)
        /\ \A D \in Keys(contents) : Len(Get(back_links, D)) = Cardinality(Incoming(D))

\* A step never changes a raw text; a step that renders a text, and every
\* step from the first rendering on, leaves the links and the entries of
\* both indexes as they are.
RenderingReadsOnly ==
    /\ contents' = contents
    /\ (out' # out \/ pc \in {"render", "done"}) =>
          /\ pc = "render"
          /\ forward_links' = forward_links
          /\ \A D \in DOMAIN back_links' : Get(back_links', D) = Get(back_links, D)
          /\ \A D \in DOMAIN unlinked_links' : Get(unlinked_links', D) = Get(unlinked_links, D)

\* C10: link extraction and the construction of both indexes are complete
\* before any text is augmented or rewritten, and every quoted block is
\* computed from the raw text of its source document at the original
\* offsets, whether that document is rendered before or after.
IndexesBeforeRendering ==
    /\ [](EntriesOnRawText /\ QuotedFromRawText /\ IndexesComplete)
    /\ [][RenderingReadsOnly]_vars

IndexesBeforeRenderingWitness ==
    /\ pc = "done"
    /\ Content("T.md") = "[[S]] S"
    /\ Content("S.md") = "{{[[TODO]]}} x\n[[T]]"
    /\ Find(out["T.md"], "\n# Backlinks (1)\n## [S](<S.md>)\n[T](<T.md>)\n", 0) # -1
    /\ Find(out["S.md"], "\n# Backlinks (1)\n## [T](<T.md>)\n[S](<S.md>) S\n", 0) # -1
    /\ Find(out["S.md"], "\n# Unlinked references (1)\n", 0) # -1

\* C11: in the output of every document D, every link to a note carries D's
\* parent-directory prefix, one "../" for each "/" in D's key: the links
\* that the rewriting of References makes, and the links of the source
\* headings of D's Backlinks and Unlinked references sections.
EveryLinkCarriesPrefix ==
    \A D \in DOMAIN out :
        \A p \in 0..Len(out[D]) :
            StartsWithAt(out[D], "](<", p) =>
                StartsWithAt(out[D], LinkPrefix(D), p + 3)

====
